---- MODULE Spec2Model ----
(***************************************************************************)
(* A model of src/index.js: the response formatters, the translator, the   *)
(* webhook notifier and slugify.  The file holds two versions of the       *)
(* module; the model follows the second one (lines 340-645), which is the  *)
(* one whose formatters go through custom().                               *)
(*                                                                         *)
(* JavaScript values are modelled as follows.  A string is a TLA+ string;  *)
(* undefined, null and {} are the tokens UNDEFINED, NULL and EMPTY_OBJECT. *)
(* An expression that may throw evaluates to a completion record           *)
(* [ok |-> TRUE, v |-> value] or [ok |-> FALSE, v |-> "TypeError"].        *)
(* A text handled character by character (slugify) is a sequence of        *)
(* one-character tokens.  A document written as it is, not under a key, is *)
(* [raw |-> document].  Records are built by the constructors below, each  *)
(* with its fields in one fixed order.                                     *)
(***************************************************************************)
EXTENDS Naturals, Sequences, FiniteSets, Bags, TLC

VARIABLES
    lang,       \* the locale table of require("./lang.json")
    env,        \* process.env: ALLOW_NOTIF, ALLOW_LOG_NOTIF
    call,       \* the exported function called last, with its arguments
    pc,         \* "idle", or "awaiting" inside error() at its await
    sink,       \* the response object of the call: status() and json()/send() calls
    thrown,     \* the exception the caller of the last call observed, or "none"
    result,     \* what the last call returned: the state of the promise of an
                \* async function, the text translate returned
    posted,     \* number of axios.post calls made synchronously by the last call
    inflight,   \* bag of POSTs handed to the transport and not settled yet
    unhandled,  \* TRUE once a promise rejected with no handler attached
    text,       \* slugify: the input text
    slug,       \* slugify: the text after the calls made so far
    passes      \* slugify: number of calls made so far

vars == <<lang, env, call, pc, sink, thrown, result, posted, inflight,
          unhandled, text, slug, passes>>

formatterVars == <<env, call, pc, sink, thrown, result, posted, inflight, unhandled>>
slugVars == <<text, slug, passes>>

UNDEFINED == "<undefined>"
NULL == "<null>"
EMPTY_OBJECT == "{}"

\* A call of the exported function op with its arguments; an argument the
\* function does not take is left at a default.
Call(op, req, status, success, data, message, hook) ==
    [op |-> op, req |-> req, status |-> status, success |-> success,
     data |-> data, message |-> message, hook |-> hook]

\* A response object: the codes given to status() and the documents given to
\* json() or send(), in the order of the calls.
Response(status, body) == [status |-> status, body |-> body]

\* One document written through via ("json" or "send").
Written(via, doc) == [via |-> via, doc |-> doc]

\* The envelope custom() builds.
Envelope(success, data, message) ==
    [success |-> success, data |-> data, message |-> message]

\* One axios.post(hook, content). The content is kept as its place in the
\* chain of a call: 1 for the content the caller gave, n + 1 for the
\* "error while sending notification" content built when POST n failed.
Post(hook, attempt) == [hook |-> hook, attempt |-> attempt]

\* process.env
Env(ALLOW_NOTIF, ALLOW_LOG_NOTIF) ==
    [ALLOW_NOTIF |-> ALLOW_NOTIF, ALLOW_LOG_NOTIF |-> ALLOW_LOG_NOTIF]

\* The completion of an expression: a value, or an exception thrown.
Completion(ok, v) == [ok |-> ok, v |-> v]
Ok(value) == Completion(TRUE, value)
Throw(exception) == Completion(FALSE, exception)

\* What a formatter leaves: the response object and the exception raised, if any.
Left(response, exception) == [sink |-> response, thrown |-> exception]
Returned(response) == Left(response, "none")
Raised(response, exception) == Left(response, exception)

(***************************************************************************)
(* slugify                                                                 *)
(***************************************************************************)
MaxLen == 4

\* The characters texts are drawn from: an upper-case and a lower-case
\* letter, a digit, a blank, an underscore, a hyphen, a punctuation mark and
\* the Kelvin sign U+212A (a non-ASCII letter whose lower case is ASCII "k").
Chars == {"A", "b", "7", " ", "_", "-", "!", "KELVIN"}

\* \w of a JavaScript regular expression without the u flag: [A-Za-z0-9_]
WordChars == {"A", "a", "b", "k", "7", "_"}
\* \s
SpaceChars == {" "}

\* String.prototype.toLowerCase, per character
LowerChar(c) == CASE c = "A" -> "a"
                  [] c = "KELVIN" -> "k"
                  [] OTHER -> c

toLowerCase(s) == [i \in 1..Len(s) |-> LowerChar(s[i])]

\* s without its longest prefix of characters of drop
RECURSIVE TrimStart(_, _)
TrimStart(s, drop) ==
    IF s # <<>> /\ Head(s) \in drop THEN TrimStart(Tail(s), drop) ELSE s

\* s without its longest suffix of characters of drop
RECURSIVE TrimEnd(_, _)
TrimEnd(s, drop) ==
    IF s # <<>> /\ s[Len(s)] \in drop
    THEN TrimEnd(SubSeq(s, 1, Len(s) - 1), drop) ELSE s

\* String.prototype.trim
trim(s) == TrimEnd(TrimStart(s, SpaceChars), SpaceChars)

\* .replace(/[^\w\s-]/g, "")
StripOthers(s) == SelectSeq(s, LAMBDA c : c \in WordChars \cup SpaceChars \cup {"-"})

\* [\s_-]
Separators == SpaceChars \cup {"_", "-"}

\* .replace(/[\s_-]+/g, "-"): every maximal run of separators becomes one hyphen
RECURSIVE CollapseSeparators(_)
CollapseSeparators(s) ==
    IF s = <<>> THEN <<>>
    ELSE IF Head(s) \in Separators
         THEN <<"-">> \o CollapseSeparators(TrimStart(Tail(s), Separators))
         ELSE <<Head(s)>> \o CollapseSeparators(Tail(s))

\* .replace(/^-+|-+$/g, "")
TrimHyphens(s) == TrimEnd(TrimStart(s, {"-"}), {"-"})

\* slugify with its last two replace calls in the other order
slugify_trim_before_collapse(string) ==
    CollapseSeparators(TrimHyphens(StripOthers(trim(toLowerCase(string)))))

slugify(string) ==
    TrimHyphens(CollapseSeparators(StripOthers(trim(toLowerCase(string)))))

RECURSIVE TextsOfLen(_)
TextsOfLen(n) ==
    IF n = 0 THEN {<<>>}
    ELSE {<<c>> \o t : c \in Chars, t \in TextsOfLen(n - 1)}

Texts == UNION {TextsOfLen(n) : n \in 0..MaxLen}

\* The call slugify(slug): the first call is on the input text, every later
\* one on the result of the call before it.
SlugifyCall ==
    /\ passes < 2
    /\ slug' = slugify(slug)
    /\ passes' = passes + 1
    /\ UNCHANGED <<lang, text, formatterVars>>

(***************************************************************************)
(* translate and handleLanguage                                            *)
(***************************************************************************)
\* The message keys the formatters pass to translate.
EngKeys == {"missing_parameters", "already_exist", "not_found",
            "successfull_operation", "forbidden", "unauthorized", "422_error"}

\* A key no locale has.
Keys == EngKeys \cup {"no_such_key"}

\* The property names every plain object inherits from Object.prototype
\* (one of them stands for all).
ObjectPrototype == {"constructor"}

\* The values of the query parameter lang: absent, empty, the two locales of
\* the table, a code no locale has, and a code that names an inherited
\* property.
LangParams == {UNDEFINED, "", "eng", "fra", "xx", "constructor"}

\* The request objects: req.query.lang reads UNDEFINED when the parameter is absent.
Requests == {[query |-> [lang |-> l]] : l \in LangParams}

\* The text of key k in locale l.
Text(l, k) == l \o ":" \o k

\* A locale table: "eng" has every key the system uses, "fra" the keys fraKeys.
LocaleTable(fraKeys) ==
    [l \in {"eng", "fra"} |->
        [k \in (IF l = "eng" THEN EngKeys ELSE fraKeys) |-> Text(l, k)]]

LangTables == {LocaleTable(ks) : ks \in SUBSET EngKeys}

\* The tables the formatters are run with: a complete "fra" and a partial one.
FormatterTables ==
    {LocaleTable(EngKeys), LocaleTable(EngKeys \ {"not_found", "422_error"})}

\* How o[p] is found for a plain object o given as a function: as an own
\* property, else as a property inherited from Object.prototype, else not.
PropKind(o, p) ==
    IF p \in DOMAIN o THEN "own"
    ELSE IF p \in ObjectPrototype THEN "inherited"
    ELSE "undefined"

\* o[p] for a plain object o whose own properties are strings.
GetText(o, p) ==
    CASE PropKind(o, p) = "own" -> o[p]
      [] PropKind(o, p) = "inherited" -> "<inherited>"
      [] OTHER -> UNDEFINED

\* request.query.lang ? request.query.lang : "eng"; reading .lang of an
\* undefined query throws.
handleLanguage(request) ==
    IF "query" \notin DOMAIN request THEN Throw("TypeError")
    ELSE IF request.query.lang \in {UNDEFINED, ""} THEN Ok("eng")
    ELSE Ok(request.query.lang)

\* lang[String(language)][message], as the try block evaluates it; String()
\* of a string is that string.
Lookup(table, language, message) ==
    CASE PropKind(table, language) = "undefined" -> Throw("TypeError")
      [] PropKind(table, language) = "inherited" ->
            \* a property of the function Object.prototype.constructor
            Ok(IF message \in ObjectPrototype THEN "<inherited>" ELSE UNDEFINED)
      [] OTHER -> Ok(GetText(table[language], message))

\* translate over a given table: handleLanguage runs before the try block,
\* the catch block returns lang.eng[message].
translate_in(table, request, message) ==
    LET language == handleLanguage(request) IN
    IF ~language.ok THEN language
    ELSE LET found == Lookup(table, language.v, message) IN
         IF found.ok THEN found ELSE Ok(GetText(table["eng"], message))

translate(request, message) == translate_in(lang, request, message)

(***************************************************************************)
(* The response object                                                     *)
(***************************************************************************)
\* A response on which nothing was called yet.
NewResponse == Response(<<>>, <<>>)

\* response.status(code)
Status(response, code) == Response(Append(response.status, code), response.body)

\* response.json(doc)
Json(response, doc) ==
    Response(response.status, Append(response.body, Written("json", doc)))

\* response.send(doc)
Send(response, doc) ==
    Response(response.status, Append(response.body, Written("send", doc)))

(***************************************************************************)
(* The formatters                                                          *)
(***************************************************************************)
custom(response, statusCode, success, data, message) ==
    Json(Status(response, statusCode), Envelope(success, data, message))

\* status || 200
_custom(response, status, data) ==
    Json(Status(response, IF status = 0 THEN 200 ELSE status), [data |-> data])

\* custom(res, statusCode, success, data, translate(req, key)): the arguments
\* are evaluated before custom is entered.
CustomTranslated(req, res, statusCode, success, data, key) ==
    LET m == translate(req, key) IN
    IF m.ok THEN Returned(custom(res, statusCode, success, data, m.v))
    ELSE Raised(res, m.v)

badResquest(req, res) == CustomTranslated(req, res, 400, FALSE, NULL, "missing_parameters")

badResquestWithMsg(res, message) == Returned(custom(res, 400, FALSE, NULL, message))

conflict(req, res) == CustomTranslated(req, res, 409, FALSE, NULL, "already_exist")

notFound(req, res) == CustomTranslated(req, res, 404, TRUE, EMPTY_OBJECT, "not_found")

success(req, res) == CustomTranslated(req, res, 201, FALSE, NULL, "successfull_operation")

_success(res, data) == Returned(_custom(res, 201, data))

forbidden(req, res) == CustomTranslated(req, res, 403, FALSE, NULL, "forbidden")

unauthorized(req, res) == CustomTranslated(req, res, 401, FALSE, NULL, "unauthorized")

\* res.status(422).send(translate(res, "422_error")): res.status(422) is
\* called first, then the argument is evaluated, with res where the other
\* formatters pass req, then send is called.
unprocessable_content(req, res) ==
    LET afterStatus == Status(res, 422)
        m == translate(afterStatus, "422_error")
    IN  IF m.ok THEN Returned(Send(afterStatus, [raw |-> m.v]))
        ELSE Raised(afterStatus, m.v)

success_with_data(req, res, data) == Returned(Json(Status(res, 200), [raw |-> data]))

success_with_datas(req, res, data) == Returned(Json(Status(res, 200), [data |-> data]))

(***************************************************************************)
(* The notifier                                                            *)
(***************************************************************************)
MaxInFlight == 2
MaxAttempts == 3

ERROR_HOOK == "process.env.ERROR_HOOK"
LOG_HOOK == "process.env.LOG_HOOK"

\* The hook URLs a caller passes to custom_notify.
Hooks == {ERROR_HOOK, LOG_HOOK, "https://hooks.example/other"}

\* The values of an environment variable: the two spellings the deployment
\* uses, and unset.
EnvValues == {"true", "false", UNDEFINED}

\* custom_notify with a gate that only an explicit "false" closes
custom_notify_unless_false(hook, attempt) ==
    IF env.ALLOW_NOTIF # "false" THEN SetToBag({Post(hook, attempt)}) ELSE EmptyBag

\* The POSTs the body of custom_notify starts.
custom_notify(hook, attempt) ==
    IF env.ALLOW_NOTIF = "true" THEN SetToBag({Post(hook, attempt)}) ELSE EmptyBag

error_notification(attempt) == custom_notify(ERROR_HOOK, attempt)

log_notification(attempt) ==
    IF env.ALLOW_LOG_NOTIF = "true" THEN custom_notify(LOG_HOOK, attempt) ELSE EmptyBag

\* the chain with no catch handler attached
ChainWithoutCatch(outcome) == outcome

\* What the promise axios.post(..).then(..).catch(..) settles to, given what
\* the POST settled to: the then handler returns, and the catch handler
\* takes a rejection and returns.
ChainSettles(outcome) == "fulfilled"

\* custom_notify waiting for its POSTs before it returns
custom_notify_awaits_post(pending) == BagToSet(pending) = {}

\* Whether the promise an async custom_notify call returned is settled once
\* its body has run, given the POSTs still in flight: the body neither awaits
\* nor returns the axios chain.
custom_notify_settled(pending) == TRUE

(***************************************************************************)
(* The calls                                                               *)
(***************************************************************************)
Datas == {"d1", EMPTY_OBJECT}
Messages == {"m1", "m2"}
Errors == {"Error: e1", "e2"}
CustomStatuses == {200, 418}

NoRequest == [query |-> [lang |-> UNDEFINED]]

NoCall == Call("none", NoRequest, 0, FALSE, NULL, NULL, NULL)
CallWithRequest(op, req) == Call(op, req, 0, FALSE, NULL, NULL, NULL)
CallWithData(op, req, data) == Call(op, req, 0, FALSE, data, NULL, NULL)
CallWithMessage(op, message) == Call(op, NoRequest, 0, FALSE, NULL, message, NULL)
CallWithHook(op, hook) == Call(op, NoRequest, 0, FALSE, NULL, NULL, hook)

\* A synchronous formatter call c that left r.
Respond(c, r) ==
    /\ pc = "idle"
    /\ call' = c
    /\ sink' = r.sink
    /\ thrown' = r.thrown
    /\ result' = "none"
    /\ posted' = 0
    /\ UNCHANGED <<lang, env, pc, inflight, unhandled, slugVars>>

Custom ==
    \E st \in CustomStatuses, su \in BOOLEAN, d \in Datas, m \in Messages :
        Respond(Call("custom", NoRequest, st, su, d, m, NULL),
                Returned(custom(NewResponse, st, su, d, m)))

BadRequest ==
    \E req \in Requests :
        Respond(CallWithRequest("badResquest", req),
                badResquest(req, NewResponse))

BadRequestWithMsg ==
    \E m \in Messages :
        Respond(CallWithMessage("badResquestWithMsg", m),
                badResquestWithMsg(NewResponse, m))

Conflict ==
    \E req \in Requests :
        Respond(CallWithRequest("conflict", req),
                conflict(req, NewResponse))

NotFound ==
    \E req \in Requests :
        Respond(CallWithRequest("notFound", req),
                notFound(req, NewResponse))

Success ==
    \E req \in Requests :
        Respond(CallWithRequest("success", req),
                success(req, NewResponse))

SuccessWithPayload ==
    \E d \in Datas :
        Respond(CallWithData("_success", NoRequest, d),
                _success(NewResponse, d))

Forbidden ==
    \E req \in Requests :
        Respond(CallWithRequest("forbidden", req),
                forbidden(req, NewResponse))

Unauthorized ==
    \E req \in Requests :
        Respond(CallWithRequest("unauthorized", req),
                unauthorized(req, NewResponse))

UnprocessableContent ==
    \E req \in Requests :
        Respond(CallWithRequest("unprocessable_content", req),
                unprocessable_content(req, NewResponse))

\* success_with_data and success_with_datas take req and do not read it.
SuccessWithData ==
    \E d \in Datas :
        Respond(CallWithData("success_with_data", NoRequest, d),
                success_with_data(NoRequest, NewResponse, d))

SuccessWithDatas ==
    \E d \in Datas :
        Respond(CallWithData("success_with_datas", NoRequest, d),
                success_with_datas(NoRequest, NewResponse, d))

\* A notifier call c whose body started the POSTs of started: an async
\* function with no await, so the promise it returns is fulfilled.
Notified(c, started) ==
    /\ pc = "idle"
    /\ BagCardinality(inflight (+) started) <= MaxInFlight
    /\ call' = c
    /\ inflight' = inflight (+) started
    /\ posted' = BagCardinality(started)
    /\ result' = "fulfilled"
    /\ thrown' = "none"
    /\ sink' = NewResponse
    /\ UNCHANGED <<lang, env, pc, unhandled, slugVars>>

Notify ==
    \E hook \in Hooks :
        Notified(CallWithHook("custom_notify", hook),
                 custom_notify(hook, 1))

NotifyError ==
    \E hook \in {ERROR_HOOK} :
        Notified(CallWithHook("error_notification", hook), error_notification(1))

NotifyLog ==
    \E hook \in {LOG_HOOK} :
        Notified(CallWithHook("log_notification", hook), log_notification(1))

\* error(res, err) up to its await: error_notification has run.
ErrorCall ==
    \E err \in Errors :
        LET started == error_notification(1) IN
        /\ pc = "idle"
        /\ BagCardinality(inflight (+) started) <= MaxInFlight
        /\ call' = CallWithMessage("error", err)
        /\ pc' = "awaiting"
        /\ inflight' = inflight (+) started
        /\ posted' = BagCardinality(started)
        /\ result' = "pending"
        /\ thrown' = "none"
        /\ sink' = NewResponse
        /\ UNCHANGED <<lang, env, unhandled, slugVars>>

\* error(res, err) after its await: return custom(res, 500, false, null, error).
ErrorResume ==
    /\ pc = "awaiting"
    /\ custom_notify_settled(inflight)
    /\ sink' = custom(sink, 500, FALSE, NULL, call.message)
    /\ pc' = "idle"
    /\ result' = "fulfilled"
    /\ UNCHANGED <<lang, env, call, thrown, posted, inflight, unhandled, slugVars>>

\* The transport resolves a POST: the then handler does nothing.
PostSucceeds ==
    \E p \in BagToSet(inflight) :
        /\ inflight' = inflight (-) SetToBag({p})
        /\ unhandled' = (unhandled \/ ChainSettles("fulfilled") = "rejected")
        /\ UNCHANGED <<lang, env, call, pc, sink, thrown, result, posted, slugVars>>

\* The transport rejects a POST: the catch handler calls error_notification
\* with a new content. (A POST that hangs stays in flight.)
PostFails ==
    \E p \in BagToSet(inflight) :
        /\ p.attempt < MaxAttempts
        /\ inflight' = (inflight (-) SetToBag({p})) (+) error_notification(p.attempt + 1)
        /\ unhandled' = (unhandled \/ ChainSettles("rejected") = "rejected")
        /\ UNCHANGED <<lang, env, call, pc, sink, thrown, result, posted, slugVars>>

\* The objects translate is called on: a request object, or the response
\* object unprocessable_content passes.
TranslateArguments == Requests \cup {Status(NewResponse, 422)}

\* The call translate(request, message) of the exported utility.
TranslateCall ==
    \E request \in TranslateArguments, message \in Keys :
        LET r == translate(request, message) IN
        /\ call' = Call("translate", request, 0, FALSE, NULL, message, NULL)
        /\ thrown' = (IF r.ok THEN "none" ELSE r.v)
        /\ result' = (IF r.ok THEN r.v ELSE UNDEFINED)
        /\ UNCHANGED <<lang, env, pc, sink, posted, inflight, unhandled, slugVars>>

(***************************************************************************)
(* The specifications                                                      *)
(***************************************************************************)
Idle ==
    /\ call = NoCall
    /\ pc = "idle"
    /\ sink = NewResponse
    /\ thrown = "none"
    /\ result = "none"
    /\ posted = 0
    /\ inflight = EmptyBag
    /\ unhandled = FALSE

NoEnv == Env(UNDEFINED, UNDEFINED)

\* The formatters and the notifier.
Init ==
    /\ lang \in FormatterTables
    /\ env \in {Env(a, b) : a \in EnvValues, b \in EnvValues}
    /\ Idle
    /\ text = <<>> /\ slug = <<>> /\ passes = 0

Next ==
    \/ Custom \/ BadRequest \/ BadRequestWithMsg \/ Conflict \/ NotFound
    \/ Success \/ SuccessWithPayload \/ Forbidden \/ Unauthorized
    \/ UnprocessableContent \/ SuccessWithData \/ SuccessWithDatas
    \/ Notify \/ NotifyError \/ NotifyLog
    \/ ErrorCall \/ ErrorResume \/ PostSucceeds \/ PostFails

Spec == Init /\ [][Next]_vars

\* The continuation of an await runs once the awaited promise is settled;
\* nothing is assumed of the transport.
FairSpec == Spec /\ WF_vars(ErrorResume)

\* translate as a pure function of the table, the request and the key.
TranslateInit ==
    /\ lang \in LangTables
    /\ env = NoEnv
    /\ Idle
    /\ text = <<>> /\ slug = <<>> /\ passes = 0

TranslateSpec == TranslateInit /\ [][TranslateCall]_vars

\* slugify as a pure function of the text.
SlugInit ==
    /\ lang = LocaleTable(EngKeys)
    /\ env = NoEnv
    /\ Idle
    /\ text \in Texts /\ slug = text /\ passes = 0

SlugSpec == SlugInit /\ [][SlugifyCall]_vars

(***************************************************************************)
(* The claims                                                              *)
(***************************************************************************)
NotifierOps == {"custom_notify", "error_notification", "log_notification"}

TranslatingOps == {"badResquest", "conflict", "notFound", "success", "forbidden",
                   "unauthorized", "unprocessable_content"}

FormatterOps == TranslatingOps \cup {"custom", "badResquestWithMsg", "_success",
                                     "error", "success_with_data", "success_with_datas"}

\* A formatter call that has returned to its caller (error: past its await).
FormatterDone == call.op \in FormatterOps /\ pc = "idle"

\* C1: with ALLOW_NOTIF not "true" no call makes a POST and none is ever in
\* flight; a log_notification call makes a POST only when ALLOW_NOTIF and
\* ALLOW_LOG_NOTIF are both "true"; an error_notification call makes its POST
\* whenever ALLOW_NOTIF is "true", whatever ALLOW_LOG_NOTIF is.
C1_NotificationGating ==
    /\ env.ALLOW_NOTIF # "true" => posted = 0 /\ BagToSet(inflight) = {}
    /\ call.op = "log_notification" /\ posted > 0 =>
            env.ALLOW_NOTIF = "true" /\ env.ALLOW_LOG_NOTIF = "true"
    /\ call.op = "error_notification" /\ env.ALLOW_NOTIF = "true" => posted = 1

\* C1 witness: a log_notification call, with notifications on and log
\* notifications not on, that made no POST.
C1_Witness ==
    /\ call.op = "log_notification"
    /\ env.ALLOW_NOTIF = "true"
    /\ env.ALLOW_LOG_NOTIF # "true"
    /\ posted = 0

\* C2: the caller of custom_notify, error_notification or log_notification
\* sees no exception and no rejected promise, and no rejection of a POST is
\* left without a handler, whatever the transport does.
C2_NotifierNeverThrows ==
    /\ call.op \in NotifierOps => thrown = "none" /\ result = "fulfilled"
    /\ ~unhandled

\* C2 witness: after a notifier call the primary POST and the secondary POST
\* have both failed (a third content is in flight).
C2_Witness ==
    /\ call.op \in NotifierOps
    /\ result = "fulfilled"
    /\ \E p \in BagToSet(inflight) : p.attempt = 3

\* C3: one call causes at most two POST attempts: the POST of the call and
\* one secondary POST to the error hook.
C3_AtMostTwoAttempts == \A p \in BagToSet(inflight) : p.attempt <= 2

\* What holds of the code in place of C3: every POST after the first of a
\* chain goes to the error hook, and each failure starts exactly one more.
C3_EscalationsGoToErrorHook ==
    \A p \in BagToSet(inflight) : p.attempt > 1 => p.hook = ERROR_HOOK

\* C4: an error() call that has reached its await goes on to emit the
\* response, with status 500 and the envelope of the error, whether the
\* notification POST succeeds, fails or never completes.
C4_ErrorAlwaysResponds ==
    (call.op = "error" /\ pc = "awaiting")
        ~> (/\ call.op = "error" /\ pc = "idle"
            /\ sink = custom(NewResponse, 500, FALSE, NULL, call.message))

\* C4 witness: error() has emitted its 500 response while the POST of its
\* notification is still in flight.
C4_Witness ==
    /\ call.op = "error" /\ pc = "idle"
    /\ sink.status = <<500>>
    /\ posted = 1
    /\ \E p \in BagToSet(inflight) : p.hook = ERROR_HOOK /\ p.attempt = 1

\* The row of the table for call c: the response it is to leave. tr(key) is
\* the text translate gives for the request of the call.
TableRow(c) ==
    LET tr(key) == translate(c.req, key).v
        json(st, doc) == Response(<<st>>, <<Written("json", doc)>>)
    IN CASE c.op = "badResquest" ->
                json(400, Envelope(FALSE, NULL, tr("missing_parameters")))
         [] c.op = "badResquestWithMsg" -> json(400, Envelope(FALSE, NULL, c.message))
         [] c.op = "conflict" -> json(409, Envelope(FALSE, NULL, tr("already_exist")))
         [] c.op = "notFound" -> json(404, Envelope(TRUE, EMPTY_OBJECT, tr("not_found")))
         [] c.op = "success" ->
                json(201, Envelope(FALSE, NULL, tr("successfull_operation")))
         [] c.op = "_success" -> json(201, [data |-> c.data])
         [] c.op = "error" -> json(500, Envelope(FALSE, NULL, c.message))
         [] c.op = "forbidden" -> json(403, Envelope(FALSE, NULL, tr("forbidden")))
         [] c.op = "unauthorized" -> json(401, Envelope(FALSE, NULL, tr("unauthorized")))
         [] c.op = "unprocessable_content" ->
                Response(<<422>>, <<Written("send", [raw |-> tr("422_error")])>>)
         [] c.op = "success_with_data" -> json(200, [raw |-> c.data])
         [] c.op = "success_with_datas" -> json(200, [data |-> c.data])
         [] c.op = "custom" -> json(c.status, Envelope(c.success, c.data, c.message))

\* C5: every formatter leaves the status and the body of its row of the table.
C5_TableRows == FormatterDone => sink = TableRow(call)

\* C5 without the row of unprocessable_content.
C5_TableRowsBut422 ==
    FormatterDone /\ call.op # "unprocessable_content" => sink = TableRow(call)

\* C6: every formatter call sets the status once and writes the body once.
C6_ExactlyOnce == FormatterDone => Len(sink.status) = 1 /\ Len(sink.body) = 1

\* C6 without unprocessable_content.
C6_ExactlyOnceBut422 ==
    FormatterDone /\ call.op # "unprocessable_content" =>
        Len(sink.status) = 1 /\ Len(sink.body) = 1

\* A translate call with lang set to l.
TranslatedWith(l) ==
    /\ call.op = "translate"
    /\ "query" \in DOMAIN call.req
    /\ call.req.query.lang = l

\* C7: for a locale l of the table and a key of "eng", translate returns the
\* text of l when l has the key and the text of "eng" when it has not.
C7_PerKeyFallback ==
    \A l \in DOMAIN lang :
        TranslatedWith(l) /\ call.message \in DOMAIN lang["eng"] =>
            /\ thrown = "none"
            /\ result = IF call.message \in DOMAIN lang[l]
                        THEN lang[l][call.message] ELSE lang["eng"][call.message]

\* What holds of the code in place of C7: the text of l when l has the key,
\* undefined when it has not.
C7_NoPerKeyFallback ==
    \A l \in DOMAIN lang :
        TranslatedWith(l) /\ call.message \in DOMAIN lang["eng"] =>
            /\ thrown = "none"
            /\ result = IF call.message \in DOMAIN lang[l]
                        THEN lang[l][call.message] ELSE UNDEFINED

\* The outcome of translate with lang set to "eng".
WithEng(message) == translate([query |-> [lang |-> "eng"]], message)

\* C8: with lang absent, empty or a code the table does not have, translate
\* gives what it gives with lang set to "eng".
C8_UnknownLocaleIsDefault ==
    \A l \in LangParams \ DOMAIN lang :
        TranslatedWith(l) =>
            /\ thrown = "none"
            /\ result = WithEng(call.message).v

\* C8 without the codes that name a property inherited from Object.prototype.
C8_UnknownLocaleIsDefaultButInherited ==
    \A l \in LangParams \ (DOMAIN lang \cup ObjectPrototype) :
        TranslatedWith(l) =>
            /\ thrown = "none"
            /\ result = WithEng(call.message).v

\* C9: no formatter that calls translate sees it raise.
C9_TranslateNeverRaises == call.op \in TranslatingOps => thrown = "none"

\* C9 without unprocessable_content.
C9_TranslateNeverRaisesBut422 ==
    call.op \in TranslatingOps \ {"unprocessable_content"} => thrown = "none"

\* C10: slugify of a slugify result is that result.
C10_SlugifyIdempotent == passes = 2 => slug = slugify(text)

\* C10 witness: slugify was called on its own result, for a text that it
\* changed and that has two words.
C10_Witness ==
    /\ passes = 2
    /\ slug # text
    /\ \E i \in 1..Len(slug) : slug[i] = "-"

====
